---------------------------- MODULE Spec2Model ----------------------------
(***************************************************************************)
(* FinGuard: the fraud scorer (app/services/fraud_detection.py), the       *)
(* transaction lifecycle (app/services/transaction_status.py) and the      *)
(* add_transaction handler (app/bot/handlers/commands.py) over one store.  *)
(*                                                                         *)
(* Conventions.                                                            *)
(*  - A score is an integer number of hundredths: 0.3 is 30, 1.0 is 100.   *)
(*    The code adds the float weights in one fixed order; for all 128      *)
(*    subsets of the seven weights the float sum compares with 0.5 and 0.7 *)
(*    exactly as the sum of hundredths compares with 50 and 70.            *)
(*  - A text is a sequence of Unicode code points ("bet" is <<98,101,116>>)*)
(*  - A nullable column is a sequence of length 0 (None) or 1.             *)
(*  - Time is counted in hours; hour of day is time % 24.                  *)
(***************************************************************************)
EXTENDS Naturals, Integers, Sequences, FiniteSets, TLC

VARIABLES
    transactions,   \* table transactions: id -> row
    alerts,         \* table fraud_alerts: id -> row
    users,          \* table users: user id -> [fraud_alerts_enabled]
    now,            \* datetime.now(), in hours
    nextTxId,       \* next primary key of transactions
    nextAlertId,    \* next primary key of fraud_alerts
    last,           \* what the last finished call did and returned
    nadds,          \* number of add_transaction calls made (bounded)
    sess            \* per client: the database session of a call in progress

vars == <<transactions, alerts, users, now, nextTxId, nextAlertId, last, nadds, sess>>

----------------------------------------------------------------------------
(* Bounds of the model *)

MaxTx == 1          \* Spec: transactions entered
MaxAudit == 1       \* rejection notes appended to one description
DupRows == 2        \* SpecScore: imported rows equal to the candidate
SmallRows == 3      \* SpecScore: imported small expenses
MaxAdds == 1        \* SpecScore: add_transaction calls
MaxAlerts == 2      \* SpecAlert: alerts created
MaxTicks == 2       \* SpecClock: hours that pass
SumRows == 3        \* SpecSummary: rows stored
Entered == 6        \* SpecSix: expenses entered within the hour
Repeats == 3        \* SpecDup: equal expenses entered
OtherAdds == 2      \* SpecIsolate: transactions the other user enters

(* Program constants *)

LargeAmount == 10000
VeryLargeAmount == 50000
EarlyHour == 6
LateHour == 23
VelocityLimit == 5
AverageFactor == 3
DuplicateLimit == 2
HourWindow == 1
MonthWindow == 720
DayWindow == 24
WeightLarge == 30
WeightVeryLarge == 20
WeightHour == 20
WeightVelocity == 30
WeightKeyword == 40
WeightAverage == 30
WeightDuplicate == 20
MaxScore == 100
SuspiciousThreshold == 50
HighThreshold == 70
MediumThreshold == 50
ManualScore == 80
MaxAmount == 1000000000
MaxDescription == 200

----------------------------------------------------------------------------
(* Values *)

None == <<>>
Some(v) == <<v>>
IsNone(o) == Len(o) = 0
Get(o) == o[1]

Users == {1, 2}

INCOME == "income"
EXPENSE == "expense"
TRANSFER == "transfer"

PENDING == "pending"
CONFIRMED == "confirmed"
REJECTED == "rejected"
SUSPICIOUS == "suspicious"
TransactionStatus == {PENDING, CONFIRMED, REJECTED, SUSPICIOUS}

(* The error texts of the lifecycle service, by name. *)
ErrNotFound == "not_found"                      \* 'Транзакция не найдена'
ErrAlreadyConfirmed == "already_confirmed"      \* 'Транзакция уже подтверждена'
ErrConfirmRejected == "cannot_confirm_rejected" \* 'Нельзя подтвердить отклоненную транзакцию'
ErrAlreadyRejected == "already_rejected"        \* 'Транзакция уже отклонена'
ErrRejectConfirmed == "cannot_reject_confirmed" \* 'Нельзя отклонить подтвержденную транзакцию'
NoError == "none"
GuardErrors == {ErrAlreadyConfirmed, ErrConfirmRejected, ErrAlreadyRejected, ErrRejectConfirmed}

----------------------------------------------------------------------------
(* Texts *)

txt_food == <<102, 111, 111, 100>>          \* "food"
txt_bet == <<98, 101, 116>>                 \* "bet"
txt_Bet == <<66, 101, 116>>                 \* "Bet"
txt_dup == <<100, 117, 112>>                \* "dup"
txt_Casino_bet == <<67, 97, 115, 105, 110, 111, 32, 98, 101, 116>>  \* "Casino bet"
txt_empty == <<>>                           \* ""
RejectPrefix == <<32, 91, 1054, 1058, 1050, 1051, 1054, 1053, 1045, 1053, 1054, 58, 32>>  \* " [ОТКЛОНЕНО: "
RejectSuffix == <<93>>                      \* "]"

suspicious_keywords ==
    << <<1082, 1088, 1080, 1087, 1090, 1086>>,
       <<1073, 1080, 1090, 1082, 1086, 1080, 1085>>,
       <<1101, 1092, 1080, 1088>>,
       <<99, 114, 121, 112, 116, 111>>,
       <<98, 105, 116, 99, 111, 105, 110>>,
       <<101, 116, 104, 101, 114, 101, 117, 109>>,
       <<1082, 1072, 1079, 1080, 1085, 1086>>,
       <<99, 97, 115, 105, 110, 111>>,
       <<1089, 1090, 1072, 1074, 1082, 1080>>,
       <<98, 101, 116>>,
       <<103, 97, 109, 98, 108, 105, 110, 103>>,
       <<1083, 1086, 1090, 1077, 1088, 1077, 1103>>,
       <<108, 111, 116, 116, 101, 114, 121>>,
       <<1087, 1088, 1080, 1079>>,
       <<112, 114, 105, 122, 101>>,
       <<1080, 1085, 1074, 1077, 1089, 1090, 1080, 1094, 1080, 1080>>,
       <<105, 110, 118, 101, 115, 116, 109, 101, 110, 116>>,
       <<1090, 1088, 1077, 1081, 1076, 1080, 1085, 1075>>,
       <<116, 114, 97, 100, 105, 110, 103>> >>

(* str.lower() on one code point: A-Z, the Cyrillic capitals and Ё. *)
LowerChar(c) ==
    IF c >= 65 /\ c <= 90 THEN c + 32
    ELSE IF c >= 1040 /\ c <= 1071 THEN c + 32
    ELSE IF c = 1025 THEN 1105
    ELSE c

Lower(s) == [i \in 1..Len(s) |-> LowerChar(s[i])]

(* Python's `sub in s`. *)
Contains(s, sub) ==
    \E k \in 0..(Len(s) - Len(sub)) : \A j \in 1..Len(sub) : s[k + j] = sub[j]

IsPrefix(p, s) == Len(p) <= Len(s) /\ \A j \in 1..Len(p) : s[j] = p[j]

----------------------------------------------------------------------------
(* Queries of the scorer *)

Min(a, b) == IF a < b THEN a ELSE b

RECURSIVE SumAmount(_, _)
SumAmount(T, ids) ==
    IF ids = {} THEN 0
    ELSE LET i == CHOOSE x \in ids : TRUE
         IN T[i].amount + SumAmount(T, ids \ {i})

(* The velocity query without its user_id filter *)
RecentIds_anyUser(T, t, clock) ==
    {i \in DOMAIN T : T[i].created_at >= clock - HourWindow}

(* fraud_detection.py 58-61: the user's rows created in the trailing hour *)
RecentIds(T, t, clock) ==
    {i \in DOMAIN T : T[i].user_id = t.user_id /\ T[i].created_at >= clock - HourWindow}

(* fraud_detection.py 83-87: the user's EXPENSE rows of the trailing 30 days *)
ExpenseIds(T, t, clock) ==
    {i \in DOMAIN T : /\ T[i].user_id = t.user_id
                      /\ T[i].type = EXPENSE
                      /\ T[i].created_at >= clock - MonthWindow}

(* The duplicate query without the filter on the description *)
SimilarIds_anyDescription(T, t, clock) ==
    {i \in DOMAIN T : /\ T[i].user_id = t.user_id
                      /\ T[i].amount = t.amount
                      /\ T[i].created_at >= clock - DayWindow}

(* fraud_detection.py 94-99: same user, amount and description, trailing 24 h.
   SQL equality with a NULL description matches nothing. *)
SimilarIds(T, t, clock) ==
    {i \in DOMAIN T : /\ T[i].user_id = t.user_id
                      /\ T[i].amount = t.amount
                      /\ ~IsNone(T[i].description)
                      /\ T[i].description = t.description
                      /\ T[i].created_at >= clock - DayWindow}

(* The test of line 89 against the mean of the user's other expenses *)
AboveAverage_excludesCandidate(T, t, clock) ==
    LET ids == ExpenseIds(T, t, clock)
        n == Cardinality(ids) - 1
        s == SumAmount(T, ids) - t.amount
    IN n > 0 /\ s > 0 /\ t.amount * n > AverageFactor * s

(* avg_expense > 0 and amount > avg_expense * 3, with avg = sum / n (n > 0),
   and avg = 0 when there is no row (`scalar() or 0`). *)
AboveAverage(T, t, clock) ==
    LET ids == ExpenseIds(T, t, clock)
        n == Cardinality(ids)
        s == SumAmount(T, ids)
    IN n > 0 /\ s > 0 /\ t.amount * n > AverageFactor * s

(* The loop of lines 76-80 without its break, the last match named *)
FirstKeyword_lastMatch(description) ==
    LET low == Lower(description)
        hits == {k \in 1..Len(suspicious_keywords) : Contains(low, suspicious_keywords[k])}
    IN IF hits = {} THEN None
       ELSE Some(suspicious_keywords[CHOOSE k \in hits : \A m \in hits : k >= m])

(* The first keyword of the list contained in the lower-cased description,
   as a sequence of length 0 or 1 (the loop breaks at the first match). *)
FirstKeyword(description) ==
    LET low == Lower(description)
        hits == {k \in 1..Len(suspicious_keywords) : Contains(low, suspicious_keywords[k])}
    IN IF hits = {} THEN None
       ELSE Some(suspicious_keywords[CHOOSE k \in hits : \A m \in hits : k <= m])

Reason(kind) == [kind |-> kind, keyword |-> <<>>]
KeywordReason(kw) == [kind |-> "KeywordMatch", keyword |-> kw]

(* The score without line 106 *)
ClampScore_unclamped(s) == s

(* min(fraud_score, 1.0) *)
ClampScore(s) == Min(s, MaxScore)

(* Line 109 with >= in place of > *)
IsSuspicious_inclusive(score) == score >= SuspiciousThreshold

(* fraud_score > 0.5 *)
IsSuspicious(score) == score > SuspiciousThreshold

NoAnalysis == [is_suspicious |-> FALSE, fraud_score |-> 0, reasons |-> <<>>]

(* Line 35 testing for INCOME in place of "not EXPENSE" *)
NotScored_incomeOnly(t) == t.type = INCOME

(* Line 35: if transaction.type != TransactionType.EXPENSE *)
NotScored(t) == t.type # EXPENSE

(* FraudDetectionService.analyze_transaction on row t against table T *)
analyze_transaction(T, t, clock) ==
    IF NotScored(t) THEN NoAnalysis
    ELSE
    LET hour == t.transaction_date % 24
        kw == FirstKeyword(Get(t.description))
        c1 == t.amount > LargeAmount
        c2 == t.amount > VeryLargeAmount
        c3 == hour < EarlyHour \/ hour > LateHour
        c4 == Cardinality(RecentIds(T, t, clock)) > VelocityLimit
        c5 == ~IsNone(kw)
        c6 == AboveAverage(T, t, clock)
        c7 == Cardinality(SimilarIds(T, t, clock)) > DuplicateLimit
        sum == (IF c1 THEN WeightLarge ELSE 0) + (IF c2 THEN WeightVeryLarge ELSE 0)
             + (IF c3 THEN WeightHour ELSE 0) + (IF c4 THEN WeightVelocity ELSE 0)
             + (IF c5 THEN WeightKeyword ELSE 0) + (IF c6 THEN WeightAverage ELSE 0)
             + (IF c7 THEN WeightDuplicate ELSE 0)
        reasons == (IF c1 THEN <<Reason("LargeAmount")>> ELSE <<>>)
                \o (IF c2 THEN <<Reason("VeryLargeAmount")>> ELSE <<>>)
                \o (IF c3 THEN <<Reason("UnusualHour")>> ELSE <<>>)
                \o (IF c4 THEN <<Reason("HighVelocity")>> ELSE <<>>)
                \o (IF c5 THEN <<KeywordReason(Get(kw))>> ELSE <<>>)
                \o (IF c6 THEN <<Reason("AboveAverageSpend")>> ELSE <<>>)
                \o (IF c7 THEN <<Reason("DuplicateBurst")>> ELSE <<>>)
        score == ClampScore(sum)
    IN [is_suspicious |-> IsSuspicious(score), fraud_score |-> score, reasons |-> reasons]

(* Line 125 with >= in place of > *)
Severity_inclusive(score) ==
    IF score >= HighThreshold THEN "HIGH"
    ELSE IF score > MediumThreshold THEN "MEDIUM"
    ELSE "LOW"

(* create_fraud_alert 125-130 *)
Severity(score) ==
    IF score > HighThreshold THEN "HIGH"
    ELSE IF score > MediumThreshold THEN "MEDIUM"
    ELSE "LOW"


----------------------------------------------------------------------------
(* Rows *)

(* A Transaction row as the ORM stores it: the columns the caller does not
   pass take the column defaults of models.py (is_suspicious False,
   fraud_score 0.0, fraud_reasons NULL, created_at now, updated_at NULL). *)
NewTransaction(u, amount, description, type, status, date, clock) ==
    [user_id |-> u, amount |-> amount, description |-> description, type |-> type,
     status |-> status, transaction_date |-> date, created_at |-> clock,
     updated_at |-> None, is_suspicious |-> FALSE, fraud_score |-> 0,
     fraud_reasons |-> None]

(* ', '.join(analysis['reasons']) if analysis['reasons'] else None *)
JoinReasons(reasons) ==
    IF Len(reasons) = 0 THEN None
    ELSE Some([kind |-> "joined", list |-> reasons, text |-> <<>>])

(* "Помечено пользователем как подозрительная" *)
DefaultSuspiciousReason == [kind |-> "default", list |-> <<>>, text |-> <<>>]
UserReason(text) == [kind |-> "user", list |-> <<>>, text |-> text]

(* Python truth of an optional str: None and "" are false *)
Truthy(reason) == ~IsNone(reason) /\ Len(Get(reason)) > 0

(* The query without its user_id filter *)
Lookup_anyOwner(T, id, u) == IF id \in DOMAIN T THEN Some(id) ELSE None

(* query(...).filter(id == transaction_id, user_id == user_id).first() *)
Lookup(T, id, u) == IF id \in DOMAIN T /\ T[id].user_id = u THEN Some(id) ELSE None

(* What a call returned: result['success'], result['error'], and for
   add_transaction the analysis it computed. *)
Result(ok, err) ==
    [success |-> ok, error |-> err, analysis |-> None]

----------------------------------------------------------------------------
(* TransactionStatusService *)

(* The guards with SUSPICIOUS refused as well *)
ConfirmError_suspiciousFinal(row) ==
    IF row.status = CONFIRMED THEN ErrAlreadyConfirmed
    ELSE IF row.status \in {REJECTED, SUSPICIOUS} THEN ErrConfirmRejected
    ELSE NoError

(* The guards without lines 53-57 *)
ConfirmError_noRejectedGuard(row) ==
    IF row.status = CONFIRMED THEN ErrAlreadyConfirmed ELSE NoError

(* confirm_transaction 47-57: the guards *)
ConfirmError(row) ==
    IF row.status = CONFIRMED THEN ErrAlreadyConfirmed
    ELSE IF row.status = REJECTED THEN ErrConfirmRejected
    ELSE NoError

(* Lines 59-60 clearing the verdict as well *)
ConfirmWrite_clearsVerdict(row, clock) ==
    [row EXCEPT !.status = CONFIRMED, !.updated_at = Some(clock),
                !.is_suspicious = FALSE, !.fraud_score = 0, !.fraud_reasons = None]

(* confirm_transaction 59-60 *)
ConfirmWrite(row, clock) ==
    [row EXCEPT !.status = CONFIRMED, !.updated_at = Some(clock)]

(* The guards without lines 111-115 *)
RejectError_noConfirmedGuard(row) ==
    IF row.status = REJECTED THEN ErrAlreadyRejected ELSE NoError

(* reject_transaction 105-115: the guards *)
RejectError(row) ==
    IF row.status = REJECTED THEN ErrAlreadyRejected
    ELSE IF row.status = CONFIRMED THEN ErrRejectConfirmed
    ELSE NoError

(* f"{current_description} [ОТКЛОНЕНО: {reason}]" with description or "" *)
AuditedDescription(description, reason) ==
    (IF IsNone(description) THEN <<>> ELSE Get(description))
        \o RejectPrefix \o reason \o RejectSuffix

(* reject_transaction 117-123 *)
RejectWrite(row, reason, clock) ==
    [row EXCEPT !.status = REJECTED,
                !.updated_at = Some(clock),
                !.description = IF Truthy(reason)
                                THEN Some(AuditedDescription(row.description, Get(reason)))
                                ELSE row.description]

(* The assignments without line 171 *)
SuspiciousWrite_keepScore(row, reason, clock) ==
    [row EXCEPT !.status = SUSPICIOUS,
                !.is_suspicious = TRUE,
                !.fraud_reasons = Some(IF Truthy(reason) THEN UserReason(Get(reason))
                                       ELSE DefaultSuspiciousReason),
                !.updated_at = Some(clock)]

(* mark_as_suspicious 169-173 *)
SuspiciousWrite(row, reason, clock) ==
    [row EXCEPT !.status = SUSPICIOUS,
                !.is_suspicious = TRUE,
                !.fraud_score = ManualScore,
                !.fraud_reasons = Some(IF Truthy(reason) THEN UserReason(Get(reason))
                                       ELSE DefaultSuspiciousReason),
                !.updated_at = Some(clock)]

(* The number of rejection notes a description carries (bounds the model). *)
Audits(description) ==
    IF IsNone(description) THEN 0
    ELSE LET s == Get(description)
         IN Cardinality({k \in 0..(Len(s) - Len(RejectPrefix)) :
                          \A j \in 1..Len(RejectPrefix) : s[k + j] = RejectPrefix[j]})

confirm_transaction(id, u) ==
    /\ IF IsNone(Lookup(transactions, id, u))
       THEN /\ last' = Result(FALSE, ErrNotFound)
            /\ UNCHANGED transactions
       ELSE IF ConfirmError(transactions[id]) # NoError
       THEN /\ last' = Result(FALSE, ConfirmError(transactions[id]))
            /\ UNCHANGED transactions
       ELSE /\ transactions' = [transactions EXCEPT ![id] = ConfirmWrite(@, now)]
            /\ last' = Result(TRUE, NoError)
    /\ UNCHANGED <<alerts, users, now, nextTxId, nextAlertId, nadds, sess>>

reject_transaction(id, u, reason) ==
    /\ IF IsNone(Lookup(transactions, id, u))
       THEN /\ last' = Result(FALSE, ErrNotFound)
            /\ UNCHANGED transactions
       ELSE IF RejectError(transactions[id]) # NoError
       THEN /\ last' = Result(FALSE, RejectError(transactions[id]))
            /\ UNCHANGED transactions
       ELSE /\ Truthy(reason) => Audits(transactions[id].description) < MaxAudit
            /\ transactions' = [transactions EXCEPT ![id] = RejectWrite(@, reason, now)]
            /\ last' = Result(TRUE, NoError)
    /\ UNCHANGED <<alerts, users, now, nextTxId, nextAlertId, nadds, sess>>

mark_as_suspicious(id, u, reason) ==
    /\ IF IsNone(Lookup(transactions, id, u))
       THEN /\ last' = Result(FALSE, ErrNotFound)
            /\ UNCHANGED transactions
       ELSE /\ transactions' = [transactions EXCEPT ![id] = SuspiciousWrite(@, reason, now)]
            /\ last' = Result(TRUE, NoError)
    /\ UNCHANGED <<alerts, users, now, nextTxId, nextAlertId, nadds, sess>>

----------------------------------------------------------------------------
(* FraudDetectionService: alerts *)

(* create_fraud_alert 132-138 *)
NewAlert(id, row, analysis, clock) ==
    [user_id |-> row.user_id, transaction_id |-> Some(id),
     alert_type |-> "SUSPICIOUS_TRANSACTION",
     severity |-> Severity(analysis.fraud_score),
     message |-> [amount |-> row.amount, description |-> row.description,
                  reasons |-> analysis.reasons],
     is_read |-> FALSE, is_resolved |-> FALSE,
     created_at |-> clock, resolved_at |-> None]

(* create_fraud_alert: the alerts table after the insert *)
create_fraud_alert(A, aid, id, row, analysis, clock) ==
    [k \in DOMAIN A \cup {aid} |-> IF k = aid THEN NewAlert(id, row, analysis, clock) ELSE A[k]]

(* Line 177 resolving the alert as well *)
MarkRead_resolves(A, aid) == [A EXCEPT ![aid].is_read = TRUE, ![aid].is_resolved = TRUE]

(* Line 177 as a toggle *)
MarkRead_toggle(A, aid) == [A EXCEPT ![aid].is_read = ~A[aid].is_read]

(* mark_alert_as_read 177: alert.is_read = True *)
MarkRead(A, aid) == [A EXCEPT ![aid].is_read = TRUE]

(* mark_alert_as_read 164-183 *)
mark_alert_as_read(aid) ==
    /\ IF aid \in DOMAIN alerts
       THEN /\ alerts' = MarkRead(alerts, aid)
            /\ last' = Result(TRUE, NoError)
       ELSE /\ UNCHANGED alerts
            /\ last' = Result(FALSE, NoError)
    /\ UNCHANGED <<transactions, users, now, nextTxId, nextAlertId, nadds, sess>>

----------------------------------------------------------------------------
(* The handlers of commands.py *)

(* add_transaction 240: the sign of the amount gives the type *)
TypeOf(amount) == IF amount > 0 THEN INCOME ELSE EXPENSE
Abs(x) == IF x < 0 THEN -x ELSE x

(* The handler without lines 289-294 *)
Scored_notPersisted(row, analysis) == row

(* add_transaction 289-292: the analysis written onto the row *)
Scored(row, analysis) ==
    [row EXCEPT !.is_suspicious = analysis.is_suspicious,
                !.fraud_score = analysis.fraud_score,
                !.fraud_reasons = JoinReasons(analysis.reasons)]

(* Lines 314-321 without the test of line 320 *)
WantsAlert_ignoresPreference(analysis, db_user) == analysis.is_suspicious

(* add_transaction 314, 320: whether the handler creates an alert *)
WantsAlert(analysis, db_user) == analysis.is_suspicious /\ db_user.fraud_alerts_enabled

(* A query of analyze_transaction that the store fails raises out of
   analyze_transaction: lines 58-103 have no try/except.  `failing` names
   the queries the store fails ("velocity" 58-61, "average" 83-87,
   "duplicate" 94-99); a transaction that is not scored runs none of them. *)
Queries == {"velocity", "average", "duplicate"}
Raises(t, failing) == ~NotScored(t) /\ failing # {}

(* "❌ Произошла ошибка при добавлении транзакции. Попробуйте еще раз." *)
ErrAddFailed == "add_failed"
(* the exception analyze_transaction lets through *)
ErrStore == "store_error"

(* The failure path with the commit of line 282 placed after the analysis *)
AfterFailure_rolledBack(T, stored) == T

(* The table after the except branch 326-329: the row committed at 282 is
   not undone by the rollback *)
AfterFailure(T, stored) == stored

(* The analysis of line 287 running before the commit of line 282 *)
AnalysedTable_beforeCommit(T, stored) == T

(* The table analyze_transaction queries at line 287: the new row was
   committed at line 282 *)
AnalysedTable(T, stored) == stored

(* add_transaction 163-331, for the text "amount description" sent by user
   u, while the store fails the queries in `failing`.  The row is committed
   (281-283) before the analysis (287); an exception of the analysis is
   caught at 326-329, where the rollback finds nothing to undo. *)
add_transaction_faults(u, amount, description, failing) ==
    /\ amount # 0
    /\ Abs(amount) <= MaxAmount
    /\ Len(description) > 0
    /\ Len(description) <= MaxDescription
    /\ LET id == nextTxId
           db_user == users[u]
           row == NewTransaction(u, Abs(amount), Some(description), TypeOf(amount),
                                 CONFIRMED, now, now)
           stored == [k \in DOMAIN transactions \cup {id} |->
                        IF k = id THEN row ELSE transactions[k]]
           analysis == analyze_transaction(AnalysedTable(transactions, stored), row, now)
           scored == [Scored(row, analysis) EXCEPT
                        !.updated_at = IF Scored(row, analysis) = row THEN None ELSE Some(now)]
       IN IF Raises(row, failing)
          THEN /\ transactions' = AfterFailure(transactions, stored)
               /\ nextTxId' = id + 1
               /\ last' = Result(FALSE, ErrAddFailed)
               /\ UNCHANGED <<alerts, nextAlertId>>
          ELSE /\ transactions' = [stored EXCEPT ![id] = scored]
               /\ nextTxId' = id + 1
               /\ IF WantsAlert(analysis, db_user)
                  THEN /\ alerts' = create_fraud_alert(alerts, nextAlertId, id, scored,
                                                       analysis, now)
                       /\ nextAlertId' = nextAlertId + 1
                  ELSE UNCHANGED <<alerts, nextAlertId>>
               /\ last' = [Result(TRUE, NoError) EXCEPT !.analysis = Some(analysis)]
    /\ nadds' = nadds + 1
    /\ UNCHANGED <<users, now, sess>>

(* add_transaction with the store answering every query *)
add_transaction(u, amount, description) ==
    add_transaction_faults(u, amount, description, {})

(* settings_command 752-757: /settings alerts on|off *)
set_fraud_alerts(u, value) ==
    /\ users' = [users EXCEPT ![u].fraud_alerts_enabled = value]
    /\ last' = Result(TRUE, NoError)
    /\ UNCHANGED <<transactions, alerts, now, nextTxId, nextAlertId, nadds, sess>>

(* A row stored without a status: models.py 135 gives it PENDING *)
insert_pending(u, amount, description) ==
    /\ transactions' = [k \in DOMAIN transactions \cup {nextTxId} |->
                          IF k = nextTxId
                          THEN NewTransaction(u, amount, description, EXPENSE, PENDING, now, now)
                          ELSE transactions[k]]
    /\ nextTxId' = nextTxId + 1
    /\ last' = Result(TRUE, NoError)
    /\ UNCHANGED <<alerts, users, now, nextAlertId, nadds, sess>>

----------------------------------------------------------------------------
(* Spec: transactions entered through the bot, every call runs to completion *)

Clients == {1, 2}
Idle == [pc |-> "idle", op |-> "none", tid |-> 0, uid |-> 0, reason |-> None,
         seen |-> None, result |-> Result(TRUE, NoError)]

StartHours == {3}
Reasons == {None, Some(txt_empty), Some(txt_dup)}
AddInputs == {<<1, -15000, txt_food>>, <<1, -60000, txt_bet>>}
TxIds == 1..(MaxTx + 1)

InitCommon ==
    /\ alerts = <<>>
    /\ users = [u \in Users |-> [fraud_alerts_enabled |-> TRUE]]
    /\ nextAlertId = 1
    /\ last = Result(TRUE, NoError)
    /\ nadds = 0
    /\ sess = [c \in Clients |-> Idle]

Init ==
    /\ transactions = <<>>
    /\ nextTxId = 1
    /\ now \in StartHours
    /\ InitCommon

Next ==
    \/ \E i \in AddInputs : nextTxId <= MaxTx /\ add_transaction(i[1], i[2], i[3])
    \/ \E id \in TxIds : confirm_transaction(id, 1)
    \/ \E id \in TxIds, r \in {None, Some(txt_dup)} : reject_transaction(id, 1, r)
    \/ \E id \in TxIds, r \in {None, Some(txt_dup)} : mark_as_suspicious(id, 1, r)
    \/ \E b \in BOOLEAN : set_fraud_alerts(1, b)

Spec == Init /\ [][Next]_vars

----------------------------------------------------------------------------
(* SpecLife: the transitions of TransactionStatusService on rows of two users *)

PendingInputs == {<<2, 100, None>>, <<2, 100, Some(txt_food)>>}
LifeInputs == {<<1, -60000, txt_bet>>}

NextLife ==
    \/ \E i \in LifeInputs : nextTxId <= MaxTx /\ add_transaction(i[1], i[2], i[3])
    \/ \E i \in PendingInputs : nextTxId <= MaxTx /\ insert_pending(i[1], i[2], i[3])
    \/ \E id \in TxIds, u \in Users : confirm_transaction(id, u)
    \/ \E id \in TxIds, u \in Users, r \in Reasons : reject_transaction(id, u, r)
    \/ \E id \in TxIds, u \in Users, r \in Reasons : mark_as_suspicious(id, u, r)

SpecLife == Init /\ [][NextLife]_vars

----------------------------------------------------------------------------
(* SpecScore: the scorer over a table filled by a CSV import *)

ImportRow(amount, type, description, date) ==
    [amount |-> amount, type |-> type, description |-> description, date |-> date]

(* CSVImportService.import_transactions 419-461: the table after the rows of
   `batch` are imported for user u. A row is skipped when the table already
   holds one of that user with its amount, description and date; the session
   does not autoflush, so the rows of the batch itself are not compared. *)
import_transactions(T, firstId, u, batch, clock) ==
    LET Fresh(r) == ~\E i \in DOMAIN T :
                        /\ T[i].user_id = u
                        /\ T[i].amount = r.amount
                        /\ T[i].description = Some(r.description)
                        /\ T[i].transaction_date = r.date
        keep == SelectSeq(batch, Fresh)
    IN [k \in DOMAIN T \cup (firstId..(firstId + Len(keep) - 1)) |->
          IF k \in DOMAIN T THEN T[k]
          ELSE LET r == keep[k - firstId + 1]
               IN NewTransaction(u, r.amount, Some(r.description), r.type,
                                 CONFIRMED, r.date, clock)]

(* A statement of k incomes of 60000 "bet" and m expenses of 100 "food",
   all dated 12:00. *)
Batch(k, m) ==
    [i \in 1..k |-> ImportRow(60000, INCOME, txt_bet, 12)]
        \o [i \in 1..m |-> ImportRow(100, EXPENSE, txt_food, 12)]

(* The scorer storing its result on the row it analysed *)
StoreAfterAnalysis_writesScore(T, id, analysis) == [T EXCEPT ![id] = Scored(@, analysis)]

(* The table after analyze_transaction: lines 21-112 only build queries and
   read attributes; there is no add, no assignment to a row, no commit *)
StoreAfterAnalysis(T, id, analysis) == T

(* FraudDetectionService.analyze_transaction called on a stored row *)
analyze(id) ==
    LET analysis == analyze_transaction(transactions, transactions[id], now)
    IN /\ last' = [Result(TRUE, NoError) EXCEPT !.analysis = Some(analysis)]
       /\ transactions' = StoreAfterAnalysis(transactions, id, analysis)
       /\ UNCHANGED <<alerts, users, now, nextTxId, nextAlertId, nadds, sess>>

ScoreHours == {3, 14}
ScoreInputs == {<<1, -60000, txt_bet>>, <<1, -100, txt_food>>, <<1, 60000, txt_bet>>,
                <<2, -60000, txt_Bet>>}
ScoreReasons == {None}

InitScore ==
    /\ now \in ScoreHours
    /\ \E k \in 0..DupRows, m \in 0..SmallRows :
          /\ transactions = import_transactions(<<>>, 1, 1, Batch(k, m), now)
          /\ nextTxId = k + m + 1
    /\ InitCommon

NextScore ==
    \/ \E i \in ScoreInputs : nadds < MaxAdds /\ add_transaction(i[1], i[2], i[3])
    \/ \E id \in DOMAIN transactions : analyze(id)
    \/ \E u \in Users : confirm_transaction(nextTxId - 1, u)
    \/ \E u \in Users, r \in ScoreReasons : reject_transaction(nextTxId - 1, u, r)
    \/ \E u \in Users, r \in ScoreReasons : mark_as_suspicious(nextTxId - 1, u, r)

SpecScore == InitScore /\ [][NextScore]_vars

----------------------------------------------------------------------------
(* SpecSummary: get_transaction_status_summary over rows of both users in
   every status *)

(* lines 262-267: SELECT status, count(id) ... WHERE user_id = u GROUP BY
   status, a set of (status, count) pairs, one for each status the user has *)
StatusCounts(T, u) ==
    {<<st, Cardinality({i \in DOMAIN T : T[i].user_id = u /\ T[i].status = st})>> :
        st \in {T[i].status : i \in {j \in DOMAIN T : T[j].user_id = u}}}

(* lines 269-275 *)
EmptySummary == [pending |-> 0, confirmed |-> 0, rejected |-> 0, suspicious |-> 0,
                 total |-> 0]

(* Line 287 as summary['total'] = count *)
Accumulate_overwrite(total, count) == count

(* Line 287: summary['total'] += count *)
Accumulate(total, count) == total + count

(* lines 277-287: the loop over the groups *)
RECURSIVE Summarise(_, _)
Summarise(groups, summary) ==
    IF groups = {} THEN summary
    ELSE LET g == CHOOSE x \in groups : TRUE
             status == g[1]
             count == g[2]
             filled == IF status = PENDING THEN [summary EXCEPT !.pending = count]
                       ELSE IF status = CONFIRMED THEN [summary EXCEPT !.confirmed = count]
                       ELSE IF status = REJECTED THEN [summary EXCEPT !.rejected = count]
                       ELSE IF status = SUSPICIOUS THEN [summary EXCEPT !.suspicious = count]
                       ELSE summary
         IN Summarise(groups \ {g}, [filled EXCEPT !.total = Accumulate(@, count)])

(* TransactionStatusService.get_transaction_status_summary(user_id) *)
get_transaction_status_summary(T, u) == Summarise(StatusCounts(T, u), EmptySummary)

NextSummary ==
    \/ \E u \in Users : nextTxId <= SumRows /\ insert_pending(u, 100, None)
    \/ \E id \in DOMAIN transactions : confirm_transaction(id, transactions[id].user_id)
    \/ \E id \in DOMAIN transactions : reject_transaction(id, transactions[id].user_id, None)
    \/ \E id \in DOMAIN transactions : mark_as_suspicious(id, transactions[id].user_id, None)

SpecSummary == Init /\ [][NextSummary]_vars

----------------------------------------------------------------------------
(* SpecClock: the scorer called again as the wall clock advances *)

(* datetime.now() of lines 60, 86 and 98: an hour passes *)
Tick ==
    /\ \E h \in StartHours : now < h + MaxTicks
    /\ now' = now + 1
    /\ UNCHANGED <<transactions, alerts, users, nextTxId, nextAlertId, last, nadds, sess>>

ClockInputs == {<<1, -100, txt_food>>, <<1, -60000, txt_bet>>}

InitClock ==
    /\ now \in StartHours
    /\ \E k \in 0..DupRows, m \in 0..SmallRows :
          /\ transactions = import_transactions(<<>>, 1, 1, Batch(k, m), now)
          /\ nextTxId = k + m + 1
    /\ InitCommon

NextClock ==
    \/ \E i \in ClockInputs : nadds < MaxAdds /\ add_transaction(i[1], i[2], i[3])
    \/ \E id \in DOMAIN transactions : analyze(id)
    \/ Tick

SpecClock == InitClock /\ [][NextClock]_vars

----------------------------------------------------------------------------
(* SpecFault: the scorer and the entry of transactions while the store fails
   some of the scorer's queries *)

(* FraudDetectionService.analyze_transaction called on a stored row while
   the store fails the queries in `failing` *)
analyze_faults(id, failing) ==
    /\ last' = IF Raises(transactions[id], failing)
               THEN Result(FALSE, ErrStore)
               ELSE [Result(TRUE, NoError) EXCEPT
                       !.analysis = Some(analyze_transaction(transactions,
                                                             transactions[id], now))]
    /\ UNCHANGED <<transactions, alerts, users, now, nextTxId, nextAlertId, nadds, sess>>

Faults == {{}, {"velocity"}, {"average"}, {"duplicate"}, Queries}
FaultInputs == {<<1, -60000, txt_bet>>, <<1, 60000, txt_bet>>, <<1, -100, txt_food>>}

NextFault ==
    \/ \E i \in FaultInputs, f \in Faults :
          nadds < MaxAdds /\ add_transaction_faults(i[1], i[2], i[3], f)
    \/ \E id \in DOMAIN transactions, f \in Faults : analyze_faults(id, f)

SpecFault == InitScore /\ [][NextFault]_vars

----------------------------------------------------------------------------
(* SpecAlert: FraudDetectionService's alert calls on their own *)

AlertScores == {0, 50, 60, 70, 75, 80, 90}
AlertTxIds == {1, 3}

AnalysisOf(score) ==
    [is_suspicious |-> IsSuspicious(score), fraud_score |-> score, reasons |-> <<>>]

(* FraudDetectionService.create_fraud_alert(transaction, analysis) *)
create_alert(id, analysis) ==
    /\ alerts' = create_fraud_alert(alerts, nextAlertId, id, transactions[id], analysis, now)
    /\ nextAlertId' = nextAlertId + 1
    /\ last' = [Result(TRUE, NoError) EXCEPT !.analysis = Some(analysis)]
    /\ UNCHANGED <<transactions, users, now, nextTxId, nadds, sess>>

InitAlert ==
    /\ now = 3
    /\ transactions = import_transactions(
                          import_transactions(<<>>, 1, 1, Batch(1, 1), now),
                          3, 2, Batch(0, 1), now)
    /\ nextTxId = 4
    /\ InitCommon

NextAlert ==
    \/ \E id \in AlertTxIds, s \in AlertScores :
          nextAlertId <= MaxAlerts /\ create_alert(id, AnalysisOf(s))
    \/ \E aid \in 1..(MaxAlerts + 1) : mark_alert_as_read(aid)

SpecAlert == InitAlert /\ [][NextAlert]_vars

----------------------------------------------------------------------------
(* SpecList: get_user_alerts over alerts of both users created at
   different hours *)

(* The filters of lines 157-160 without the one on user_id *)
Matching_anyUser(A, u, unread_only) ==
    {k \in DOMAIN A : unread_only => ~A[k].is_read}

(* lines 157-160: filter(user_id == user_id), and filter(is_read == False)
   when unread_only *)
Matching(A, u, unread_only) ==
    {k \in DOMAIN A : A[k].user_id = u /\ (unread_only => ~A[k].is_read)}

(* FraudDetectionService.get_user_alerts: the lists of alert ids the query
   may return.  ORDER BY created_at DESC leaves the order of alerts created
   at the same time to the database, so each such order is a possible
   answer. *)
get_user_alerts(A, u, unread_only) ==
    LET ids == Matching(A, u, unread_only)
        n == Cardinality(ids)
    IN {list \in [1..n -> ids] :
          /\ \A i \in 1..n, j \in 1..n : i # j => list[i] # list[j]
          /\ \A i \in 1..n, j \in 1..n :
                i < j => A[list[i]].created_at >= A[list[j]].created_at}

NextList ==
    \/ \E id \in AlertTxIds : nextAlertId <= MaxAlerts /\ create_alert(id, AnalysisOf(80))
    \/ \E aid \in 1..MaxAlerts : mark_alert_as_read(aid)
    \/ Tick

SpecList == InitAlert /\ [][NextList]_vars

----------------------------------------------------------------------------
(* SpecFrame: every operation that meets an alert, on one store *)

(* FraudDetectionService.get_user_alerts called by a client: a read *)
list_alerts(u, unread_only) ==
    /\ get_user_alerts(alerts, u, unread_only) # {}
    /\ last' = Result(TRUE, NoError)
    /\ UNCHANGED <<transactions, alerts, users, now, nextTxId, nextAlertId, nadds, sess>>

FrameInputs == {<<1, -60000, txt_bet>>}
FrameScores == {60, 80}

NextFrame ==
    \/ \E i \in FrameInputs : nadds < MaxAdds /\ add_transaction(i[1], i[2], i[3])
    \/ \E id \in AlertTxIds : analyze(id)
    \/ \E s \in FrameScores : nextAlertId <= MaxAlerts /\ create_alert(1, AnalysisOf(s))
    \/ \E u \in Users : list_alerts(u, TRUE)
    \/ \E aid \in 1..MaxAlerts : mark_alert_as_read(aid)
    \/ confirm_transaction(1, 1)
    \/ reject_transaction(1, 1, None)
    \/ mark_as_suspicious(1, 1, None)

SpecFrame == InitAlert /\ [][NextFrame]_vars

----------------------------------------------------------------------------
(* SpecDrift: entered transactions of every severity, marked afterwards *)

DriftInputs == {<<1, -100, txt_bet>>, <<1, -60000, txt_bet>>, <<1, -15000, txt_food>>}

NextDrift ==
    \/ \E i \in DriftInputs : nextTxId <= MaxTx /\ add_transaction(i[1], i[2], i[3])
    \/ \E id \in TxIds : confirm_transaction(id, 1)
    \/ \E id \in TxIds, r \in {None, Some(txt_dup)} : reject_transaction(id, 1, r)
    \/ \E id \in TxIds, r \in {None, Some(txt_dup)} : mark_as_suspicious(id, 1, r)
    \/ \E b \in BOOLEAN : set_fraud_alerts(1, b)

SpecDrift == Init /\ [][NextDrift]_vars

----------------------------------------------------------------------------
(* SpecConc: two clients, each with a database session of its own.  A call
   first loads the row into its session (the SELECT), checks its guards on
   what it loaded and changes the loaded object; the commit then writes the
   changed columns to the table (UPDATE ... WHERE id = ...).  Nothing locks
   the row or compares a version between the two. *)

(* The row a call makes of the one it loaded *)
Written(op, row, reason, clock) ==
    IF op = "confirm" THEN ConfirmWrite(row, clock)
    ELSE IF op = "reject" THEN RejectWrite(row, reason, clock)
    ELSE SuspiciousWrite(row, reason, clock)

GuardError(op, row) ==
    IF op = "confirm" THEN ConfirmError(row)
    ELSE IF op = "reject" THEN RejectError(row)
    ELSE NoError

(* The unit of work's UPDATE: the columns the session changed, and no other *)
Flush(current, loaded, changed) ==
    [f \in DOMAIN current |-> IF changed[f] # loaded[f] THEN changed[f] ELSE current[f]]

(* lines 34-57 / 92-115 / 156-167: the query and the guards *)
begin(c, op, id, u, reason) ==
    /\ sess[c].pc # "loaded"
    /\ LET found == Lookup(transactions, id, u)
           call == [Idle EXCEPT !.op = op, !.tid = id, !.uid = u, !.reason = reason]
       IN IF IsNone(found)
          THEN sess' = [sess EXCEPT ![c] = [call EXCEPT !.pc = "done",
                                                      !.result = Result(FALSE, ErrNotFound)]]
          ELSE IF GuardError(op, transactions[id]) # NoError
          THEN sess' = [sess EXCEPT ![c] =
                          [call EXCEPT !.pc = "done",
                                       !.seen = Some(transactions[id]),
                                       !.result = Result(FALSE, GuardError(op, transactions[id]))]]
          ELSE /\ (op = "reject" /\ Truthy(reason)) =>
                      Audits(transactions[id].description) < MaxAudit
               /\ sess' = [sess EXCEPT ![c] = [call EXCEPT !.pc = "loaded",
                                                           !.seen = Some(transactions[id])]]
    /\ UNCHANGED <<transactions, alerts, users, now, nextTxId, nextAlertId, last, nadds>>

(* lines 59-61 / 117-125 / 169-175: the assignments and the commit *)
commit(c) ==
    /\ sess[c].pc = "loaded"
    /\ LET id == sess[c].tid
           loaded == Get(sess[c].seen)
           changed == Written(sess[c].op, loaded, sess[c].reason, now)
       IN transactions' = [transactions EXCEPT ![id] = Flush(@, loaded, changed)]
    /\ sess' = [sess EXCEPT ![c].pc = "done", ![c].result = Result(TRUE, NoError)]
    /\ UNCHANGED <<alerts, users, now, nextTxId, nextAlertId, last, nadds>>

ConcOps == {"confirm", "reject", "mark"}
ConcReasons == {None, Some(txt_dup)}

NextConc ==
    \/ \E i \in PendingInputs : nextTxId <= MaxTx /\ insert_pending(i[1], i[2], i[3])
    \/ \E c \in Clients, op \in ConcOps, id \in TxIds, r \in ConcReasons :
          begin(c, op, id, 2, r)
    \/ \E c \in Clients : commit(c)

SpecConc == Init /\ [][NextConc]_vars

----------------------------------------------------------------------------
(* SpecImport: rows entered by a CSV import and through the bot, then
   confirmed or rejected *)

(* CSVImportService.import_transactions called for user u with the rows of
   one statement *)
import_csv(u, batch) ==
    LET after == import_transactions(transactions, nextTxId, u, batch, now)
    IN /\ transactions' = after
       /\ nextTxId' = nextTxId + Cardinality(DOMAIN after \ DOMAIN transactions)
       /\ last' = Result(TRUE, NoError)
       /\ UNCHANGED <<alerts, users, now, nextAlertId, nadds, sess>>

ImportBatches == {Batch(1, 0), Batch(0, 1), Batch(1, 1),
                  <<ImportRow(200, EXPENSE, txt_dup, 13)>>}
ImportAdds == {<<1, -100, txt_food>>, <<2, -60000, txt_bet>>}
ImportIds == 1..3

NextImport ==
    \/ \E u \in Users, b \in ImportBatches :
          nextTxId + Len(b) - 1 \in ImportIds /\ import_csv(u, b)
    \/ \E i \in ImportAdds : nextTxId \in ImportIds /\ add_transaction(i[1], i[2], i[3])
    \/ \E id \in ImportIds, u \in Users : confirm_transaction(id, u)
    \/ \E id \in ImportIds, u \in Users : reject_transaction(id, u, None)

SpecImport == Init /\ [][NextImport]_vars


----------------------------------------------------------------------------
(* SpecIsolate: user 1 holds imported rows while user 2 enters, changes and
   deletes rows of their own *)

(* "❌ Произошла ошибка при удалении транзакции" *)
ErrDeleteFailed == "delete_failed"

(* delete_transaction_command 789-857: /delete ID sent by user u.  The
   alerts that refer to the row are not touched by the ORM (the relationship
   is declared on FraudAlert only); a store that enforces the foreign key of
   fraud_alerts.transaction_id refuses the DELETE, which the handler's except
   turns into an error answer, and a store that does not enforce it deletes
   the row.  `enforced` says which store it is. *)
delete_transaction(id, u, enforced) ==
    /\ IF IsNone(Lookup(transactions, id, u))
       THEN /\ last' = Result(FALSE, ErrNotFound)
            /\ UNCHANGED transactions
       ELSE IF enforced /\ \E k \in DOMAIN alerts : alerts[k].transaction_id = Some(id)
       THEN /\ last' = Result(FALSE, ErrDeleteFailed)
            /\ UNCHANGED transactions
       ELSE /\ transactions' = [k \in DOMAIN transactions \ {id} |-> transactions[k]]
            /\ last' = Result(TRUE, NoError)
    /\ UNCHANGED <<alerts, users, now, nextTxId, nextAlertId, nadds, sess>>

IsolateAdds == {<<2, -100, txt_food>>}

(* The ids of the rows of user u *)
IdsOf(u) == {i \in DOMAIN transactions : transactions[i].user_id = u}

NextIsolate ==
    \/ \E i \in IsolateAdds : nadds < OtherAdds /\ add_transaction(i[1], i[2], i[3])
    \/ \E id \in IdsOf(2) : reject_transaction(id, 2, None)
    \/ \E id \in IdsOf(2) : mark_as_suspicious(id, 2, None)
    \/ \E id \in IdsOf(2), e \in BOOLEAN : delete_transaction(id, 2, e)

(* User 1 has imported a statement of DupRows incomes and up to SmallRows
   expenses within the last hour. *)
InitIsolate ==
    /\ now \in StartHours
    /\ \E m \in 0..SmallRows :
          /\ transactions = import_transactions(<<>>, 1, 1, Batch(DupRows, m), now)
          /\ nextTxId = DupRows + m + 1
    /\ InitCommon

SpecIsolate == InitIsolate /\ [][NextIsolate]_vars


----------------------------------------------------------------------------
(* SpecRef: the scorer on entered expenses that trigger none, some or all of
   the heuristics, as the clock advances *)

RefInputs == {<<1, -100, txt_food>>, <<1, -60000, txt_bet>>, <<1, -100, txt_Casino_bet>>}

NextRef ==
    \/ \E i \in RefInputs : nadds < MaxAdds /\ add_transaction(i[1], i[2], i[3])
    \/ \E id \in DOMAIN transactions : analyze(id)
    \/ Tick

SpecRef == InitClock /\ [][NextRef]_vars


----------------------------------------------------------------------------
(* SpecRace: two add_transaction requests of one user, each in a session of
   its own.  A request commits its row (281-283), then runs the analysis
   (287), then writes the score and creates the alert (289-321); the store
   orders the commits and the queries of the two requests in any way. *)

(* db.add, db.commit of lines 281-282: the table with the new row *)
Store(T, id, row) == [k \in DOMAIN T \cup {id} |-> IF k = id THEN row ELSE T[k]]

(* The row add_transaction builds at lines 270-279 *)
EnteredRow(u, amount, description, clock) ==
    NewTransaction(u, Abs(amount), Some(description), TypeOf(amount), CONFIRMED, clock, clock)

(* lines 270-283 *)
begin_add(c, u, amount, description) ==
    /\ sess[c].pc = "idle"
    /\ amount # 0
    /\ Abs(amount) <= MaxAmount
    /\ Len(description) > 0
    /\ Len(description) <= MaxDescription
    /\ transactions' = Store(transactions, nextTxId, EnteredRow(u, amount, description, now))
    /\ nextTxId' = nextTxId + 1
    /\ sess' = [sess EXCEPT ![c] = [Idle EXCEPT !.pc = "stored", !.op = "add",
                                                 !.tid = nextTxId, !.uid = u]]
    /\ nadds' = nadds + 1
    /\ UNCHANGED <<alerts, users, now, nextAlertId, last>>

(* line 287: the analysis, with the rows its velocity query counted *)
analyse_add(c) ==
    /\ sess[c].pc = "stored"
    /\ LET row == transactions[sess[c].tid]
       IN sess' = [sess EXCEPT ![c].pc = "analysed",
                               ![c].seen = Some([counted |-> RecentIds(transactions, row, now),
                                                 analysis |-> analyze_transaction(transactions,
                                                                                  row, now)])]
    /\ UNCHANGED <<transactions, alerts, users, now, nextTxId, nextAlertId, last, nadds>>

(* lines 289-321: the score written and committed, the alert created *)
finish_add(c) ==
    /\ sess[c].pc = "analysed"
    /\ LET id == sess[c].tid
           analysis == Get(sess[c].seen).analysis
           row == transactions[id]
           scored == [Scored(row, analysis) EXCEPT
                        !.updated_at = IF Scored(row, analysis) = row THEN None ELSE Some(now)]
       IN /\ transactions' = [transactions EXCEPT ![id] = scored]
          /\ IF WantsAlert(analysis, users[sess[c].uid])
             THEN /\ alerts' = create_fraud_alert(alerts, nextAlertId, id, scored, analysis, now)
                  /\ nextAlertId' = nextAlertId + 1
             ELSE UNCHANGED <<alerts, nextAlertId>>
          /\ last' = [Result(TRUE, NoError) EXCEPT !.analysis = Some(analysis)]
    /\ sess' = [sess EXCEPT ![c].pc = "done"]
    /\ UNCHANGED <<users, now, nextTxId, nadds>>

RaceInputs == {<<1, -100, txt_food>>, <<1, -60000, txt_bet>>}

NextRace ==
    \/ \E c \in Clients, i \in RaceInputs : begin_add(c, i[1], i[2], i[3])
    \/ \E c \in Clients : analyse_add(c)
    \/ \E c \in Clients : finish_add(c)

SpecRace == InitClock /\ [][NextRace]_vars


----------------------------------------------------------------------------
(* SpecSix: one user enters small expenses with different descriptions one
   after another in the afternoon *)

(* "food1", "food2", ... *)
Numbered(k) == txt_food \o <<48 + k>>

Described(description) ==
    \E i \in DOMAIN transactions : transactions[i].description = Some(description)

InitSix ==
    /\ transactions = <<>>
    /\ nextTxId = 1
    /\ now = 14
    /\ InitCommon

NextSix ==
    \E k \in 1..Entered :
        /\ nextTxId <= Entered
        /\ ~Described(Numbered(k))
        /\ add_transaction(1, -100, Numbered(k))

SpecSix == InitSix /\ [][NextSix]_vars


----------------------------------------------------------------------------
(* SpecFlow: transactions entered through the bot, their alerts read and
   their status changed afterwards *)

FlowInputs == {<<1, -100, txt_bet>>, <<1, -60000, txt_bet>>, <<1, -15000, txt_food>>,
               <<1, -100, txt_food>>}

NextFlow ==
    \/ \E i \in FlowInputs : nextTxId <= MaxTx /\ add_transaction(i[1], i[2], i[3])
    \/ \E id \in TxIds : confirm_transaction(id, 1)
    \/ \E id \in TxIds : reject_transaction(id, 1, None)
    \/ \E id \in TxIds : mark_as_suspicious(id, 1, None)
    \/ \E aid \in TxIds : mark_alert_as_read(aid)
    \/ \E b \in BOOLEAN : set_fraud_alerts(1, b)

SpecFlow == Init /\ [][NextFlow]_vars


----------------------------------------------------------------------------
(* SpecMean: expenses of several sizes entered by a user who has imported
   none to three small expenses *)

MeanInputs == {<<1, -100, txt_food>>, <<1, -900, txt_food>>, <<1, -901, txt_food>>,
               <<1, -60000, txt_bet>>}

NextMean ==
    \/ \E i \in MeanInputs : nadds < MaxAdds /\ add_transaction(i[1], i[2], i[3])
    \/ \E id \in DOMAIN transactions : analyze(id)
    \/ Tick

SpecMean == InitClock /\ [][NextMean]_vars


----------------------------------------------------------------------------
(* SpecDup: the same expense entered again and again, among expenses that
   differ from it in description, amount or owner, over a few hours *)

DupInputs == {<<1, -100, txt_food>>, <<1, -100, txt_dup>>, <<1, -200, txt_food>>,
              <<2, -100, txt_food>>}

NextDup ==
    \/ \E i \in DupInputs : nadds < Repeats + 1 /\ add_transaction(i[1], i[2], i[3])
    \/ Tick

SpecDup == Init /\ [][NextDup]_vars


----------------------------------------------------------------------------
(* Properties *)

(* A transaction with this id belongs to this user *)
Owns(u, id) == id \in DOMAIN transactions /\ transactions[id].user_id = u

Text(description) == IF IsNone(description) THEN <<>> ELSE Get(description)

(* C1: analyze_transaction returns a fraud_score between 0.0 and 1.0 for
   every stored transaction and every content of the table, also when all
   seven heuristics fire at once, and the fraud_score stored on a row stays
   between 0 and 1 through add_transaction, confirm_transaction,
   reject_transaction and mark_as_suspicious. *)
C1_ScoreWithinUnitInterval ==
    /\ \A i \in DOMAIN transactions :
          /\ transactions[i].fraud_score >= 0
          /\ transactions[i].fraud_score <= 100
          /\ analyze_transaction(transactions, transactions[i], now).fraud_score \in 0..100
    /\ ~IsNone(last.analysis) => Get(last.analysis).fraud_score \in 0..100

(* All seven heuristics fired on the transaction just entered; its score
   was cut to 1.0 and stored. *)
C1_AllSevenTrigger ==
    /\ ~IsNone(last.analysis)
    /\ Len(Get(last.analysis).reasons) = 7
    /\ Get(last.analysis).fraud_score = 100
    /\ transactions[nextTxId - 1].fraud_score = 100

(* C2: every stored transaction and every result of analyze_transaction has
   is_suspicious = (fraud_score > 0.5); the bound is exclusive: a score of
   exactly 0.5 (LargeAmount and UnusualHour alone) is not suspicious. *)
C2_SuspiciousIffAboveHalf ==
    /\ \A i \in DOMAIN transactions :
          transactions[i].is_suspicious <=> (transactions[i].fraud_score > 50)
    /\ ~IsNone(last.analysis) =>
          LET a == Get(last.analysis)
          IN /\ a.is_suspicious <=> (a.fraud_score > 50)
             /\ a.reasons = <<Reason("LargeAmount"), Reason("UnusualHour")>> =>
                   (a.fraud_score = 50 /\ ~a.is_suspicious)

(* An expense of 15000 "food" entered at 03:00 scored exactly 0.5 and was
   stored as not suspicious. *)
C2_BoundaryNotSuspicious ==
    /\ ~IsNone(last.analysis)
    /\ Get(last.analysis).reasons = <<Reason("LargeAmount"), Reason("UnusualHour")>>
    /\ \E i \in DOMAIN transactions :
          /\ transactions[i].amount = 15000
          /\ transactions[i].fraud_score = 50
          /\ ~transactions[i].is_suspicious

(* C3: confirm_transaction on an existing (transaction_id, user_id) pair
   succeeds and sets the status to CONFIRMED when the status is PENDING; when
   the status is CONFIRMED or REJECTED it fails and leaves the record
   unchanged; so a second confirm, or a reject, straight after a successful
   confirm fails. *)
C3_ConfirmGuards ==
    [][\A id \in TxIds, u \in Users : Owns(u, id) =>
        /\ confirm_transaction(id, u) =>
            /\ transactions[id].status = PENDING =>
                 /\ last'.success
                 /\ transactions'[id] = [transactions[id] EXCEPT !.status = CONFIRMED,
                                                                 !.updated_at = Some(now)]
            /\ transactions[id].status \in {CONFIRMED, REJECTED} =>
                 /\ ~last'.success
                 /\ last'.error = (IF transactions[id].status = CONFIRMED
                                   THEN ErrAlreadyConfirmed ELSE ErrConfirmRejected)
                 /\ transactions' = transactions
            /\ last'.success => transactions'[id].status = CONFIRMED
        /\ \A r \in Reasons :
             (reject_transaction(id, u, r) /\ transactions[id].status = CONFIRMED) =>
                 /\ ~last'.success
                 /\ transactions' = transactions
      ]_vars

(* A PENDING transaction was confirmed, and the confirm that followed was
   refused as already confirmed. *)
C3_ConfirmedThenRefused ==
    /\ last = Result(FALSE, ErrAlreadyConfirmed)
    /\ \E i \in DOMAIN transactions :
          /\ transactions[i].user_id = 2
          /\ transactions[i].status = CONFIRMED
          /\ transactions[i].updated_at = Some(now)

(* C4: reject_transaction on an existing (transaction_id, user_id) pair sets
   the status of a PENDING transaction to REJECTED and appends a supplied
   reason to the description, the previous description staying a prefix of
   the new one; on a REJECTED or CONFIRMED transaction it fails and leaves
   status and description unchanged; a confirm straight after a successful
   reject fails with the error for confirming a rejected transaction. *)
C4_RejectGuards ==
    [][\A id \in TxIds, u \in Users : Owns(u, id) =>
        /\ \A r \in Reasons : reject_transaction(id, u, r) =>
            /\ transactions[id].status = PENDING =>
                 /\ last'.success
                 /\ transactions'[id].status = REJECTED
                 /\ IsPrefix(Text(transactions[id].description),
                             Text(transactions'[id].description))
                 /\ Truthy(r) =>
                      transactions'[id].description =
                          Some(Text(transactions[id].description)
                                   \o RejectPrefix \o Get(r) \o RejectSuffix)
                 /\ ~Truthy(r) =>
                      transactions'[id].description = transactions[id].description
            /\ transactions[id].status \in {REJECTED, CONFIRMED} =>
                 /\ ~last'.success
                 /\ last'.error = (IF transactions[id].status = REJECTED
                                   THEN ErrAlreadyRejected ELSE ErrRejectConfirmed)
                 /\ transactions'[id].status = transactions[id].status
                 /\ transactions'[id].description = transactions[id].description
            /\ last'.success => transactions'[id].status = REJECTED
        /\ (confirm_transaction(id, u) /\ transactions[id].status = REJECTED) =>
             /\ last' = Result(FALSE, ErrConfirmRejected)
             /\ transactions' = transactions
      ]_vars

(* A PENDING transaction described "food" was rejected with the reason
   "dup", and the confirm that followed was refused. *)
C4_RejectedWithReason ==
    /\ last = Result(FALSE, ErrConfirmRejected)
    /\ \E i \in DOMAIN transactions :
          /\ transactions[i].status = REJECTED
          /\ transactions[i].description =
                Some(txt_food \o RejectPrefix \o txt_dup \o RejectSuffix)

(* C5: mark_as_suspicious on an existing (transaction_id, user_id) pair
   succeeds from every status, and the record then has status SUSPICIOUS,
   is_suspicious true, fraud_score 0.8 and fraud_reasons equal to the reason
   passed (the fixed default text when none is passed, an empty text counting
   as none), whatever score the scorer had stored. *)
C5_MarkOverrides ==
    [][\A id \in TxIds, u \in Users, r \in Reasons :
        (Owns(u, id) /\ mark_as_suspicious(id, u, r)) =>
            /\ last' = Result(TRUE, NoError)
            /\ transactions'[id].status = SUSPICIOUS
            /\ transactions'[id].is_suspicious
            /\ transactions'[id].fraud_score = 80
            /\ transactions'[id].fraud_reasons =
                  Some(IF r \in {None, Some(txt_empty)} THEN DefaultSuspiciousReason
                       ELSE UserReason(Get(r)))
            /\ \A k \in DOMAIN transactions : k # id => transactions'[k] = transactions[k]
      ]_vars

(* A CONFIRMED transaction the scorer had given 1.0 was marked with the
   reason "dup" and now carries 0.8. *)
C5_MarkedOverScorer ==
    \E i \in DOMAIN transactions :
        /\ transactions[i].amount = 60000
        /\ transactions[i].status = SUSPICIOUS
        /\ transactions[i].fraud_score = 80
        /\ transactions[i].fraud_reasons = Some(UserReason(txt_dup))

(* C6: confirm_transaction, reject_transaction and mark_as_suspicious called
   with a (transaction_id, user_id) pair no transaction has, the id of
   another user's transaction included, fail with a not-found error that is
   none of the guard errors, and change no transaction. *)
C6_NotFound ==
    [][\A id \in TxIds, u \in Users : ~Owns(u, id) =>
        /\ confirm_transaction(id, u) =>
             (last' = Result(FALSE, ErrNotFound) /\ transactions' = transactions)
        /\ \A r \in Reasons :
             /\ reject_transaction(id, u, r) =>
                  (last' = Result(FALSE, ErrNotFound) /\ transactions' = transactions)
             /\ mark_as_suspicious(id, u, r) =>
                  (last' = Result(FALSE, ErrNotFound) /\ transactions' = transactions)
        /\ ErrNotFound \notin GuardErrors
      ]_vars

(* A call named a transaction of the other user and got the not-found
   error; the transaction is still PENDING and untouched. *)
C6_ForeignNotFound ==
    /\ last = Result(FALSE, ErrNotFound)
    /\ nextTxId > MaxTx
    /\ \A i \in DOMAIN transactions :
          /\ transactions[i].user_id = 2
          /\ transactions[i].status = PENDING
          /\ IsNone(transactions[i].updated_at)

(* C7: when confirm_transaction and reject_transaction run concurrently on
   the same PENDING transaction from two clients, exactly one of them
   succeeds, and the final status is the winner's. *)
C7_ExactlyOneWins ==
    \A c \in Clients, d \in Clients :
        ( /\ sess[c].pc = "done" /\ sess[c].op = "confirm"
          /\ sess[d].pc = "done" /\ sess[d].op = "reject"
          /\ sess[c].tid = sess[d].tid
          /\ ~IsNone(sess[c].seen) /\ Get(sess[c].seen).status = PENDING
          /\ ~IsNone(sess[d].seen) /\ Get(sess[d].seen).status = PENDING )
        => /\ sess[c].result.success # sess[d].result.success
           /\ transactions[sess[c].tid].status =
                 (IF sess[c].result.success THEN CONFIRMED ELSE REJECTED)

(* C8: create_fraud_alert sets the severity from the score of the analysis
   alone: HIGH iff score > 0.7, MEDIUM iff 0.5 < score <= 0.7, LOW
   otherwise; 0.75, 0.8 and 0.9 give HIGH and 0.6 gives MEDIUM. *)
C8_SeverityOfScore ==
    ~IsNone(last.analysis) =>
        LET score == Get(last.analysis).fraud_score
            severity == alerts[nextAlertId - 1].severity
        IN /\ (severity = "HIGH") <=> (score > 70)
           /\ (severity = "MEDIUM") <=> (50 < score /\ score <= 70)
           /\ (severity = "LOW") <=> (score <= 50)
           /\ score \in {75, 80, 90} => severity = "HIGH"
           /\ score = 60 => severity = "MEDIUM"

(* An alert for a score of exactly 0.7 was created as MEDIUM after one for
   0.75 was created as HIGH. *)
C8_MediumAtSeventy ==
    /\ ~IsNone(last.analysis)
    /\ Get(last.analysis).fraud_score = 70
    /\ nextAlertId = 3
    /\ alerts[1].severity = "HIGH"
    /\ alerts[2].severity = "MEDIUM"

(* C9: add_transaction creates an alert for the transaction it stores iff
   its analysis is suspicious and the owner has fraud_alerts_enabled; the
   alert carries the owner and the id of the transaction; no transaction
   ever has two alerts. *)
C9_AlertIffSuspiciousAndEnabled ==
    [][/\ \A i \in AddInputs : add_transaction(i[1], i[2], i[3]) =>
            IF Get(last'.analysis).is_suspicious /\ users[i[1]].fraud_alerts_enabled
            THEN /\ DOMAIN alerts' = DOMAIN alerts \cup {nextAlertId}
                 /\ nextAlertId \notin DOMAIN alerts
                 /\ alerts'[nextAlertId].transaction_id = Some(nextTxId)
                 /\ alerts'[nextAlertId].user_id = i[1]
                 /\ transactions'[nextTxId].user_id = i[1]
                 /\ \A k \in DOMAIN alerts : alerts'[k] = alerts[k]
            ELSE alerts' = alerts
       /\ \A j \in DOMAIN alerts', k \in DOMAIN alerts' :
            alerts'[j].transaction_id = alerts'[k].transaction_id => j = k
      ]_vars

(* A suspicious transaction was entered while its owner had the alerts
   switched off: it is stored as suspicious and has no alert. *)
C9_SuppressedAlert ==
    /\ ~IsNone(last.analysis)
    /\ Get(last.analysis).is_suspicious
    /\ ~users[1].fraud_alerts_enabled
    /\ transactions[nextTxId - 1].is_suspicious
    /\ \A k \in DOMAIN alerts : alerts[k].transaction_id # Some(nextTxId - 1)

(* C10: mark_alert_as_read returns false and changes nothing when no alert
   has the id; otherwise it returns true, also when the alert is already
   read, and leaves is_read true and every other field as it was, so that a
   second call changes nothing more. *)
C10_MarkReadIdempotent ==
    [][\A aid \in 1..(MaxAlerts + 1) : mark_alert_as_read(aid) =>
        IF aid \in DOMAIN alerts
        THEN /\ last'.success
             /\ alerts' = [alerts EXCEPT ![aid].is_read = TRUE]
             /\ alerts[aid].is_read => alerts' = alerts
             /\ MarkRead(alerts', aid) = alerts'
        ELSE /\ ~last'.success
             /\ alerts' = alerts
      ]_vars

(* An alert has been read, and the last call of mark_alert_as_read
   returned true. *)
C10_AlertRead ==
    /\ last = Result(TRUE, NoError)
    /\ \E k \in DOMAIN alerts : alerts[k].is_read
    /\ \E k \in DOMAIN alerts : ~alerts[k].is_read

(* C11: for a transaction of type INCOME or TRANSFER analyze_transaction
   returns fraud_score 0.0, is_suspicious false and no reasons, whatever the
   amount, the hour, the description and the user's history. *)
C11_OnlyExpensesScored ==
    \A i \in DOMAIN transactions : \A type \in {INCOME, TRANSFER} :
        LET a == analyze_transaction(transactions,
                                     [transactions[i] EXCEPT !.type = type], now)
        IN a.fraud_score = 0 /\ ~a.is_suspicious /\ a.reasons = <<>>

(* An income of 60000 "bet" was entered at 03:00 after five rows were
   imported, two of them equal to it: as an expense it would fire every
   heuristic, and it scored 0. *)
C11_LargeIncomeScoredZero ==
    /\ now = 3
    /\ nadds = 1
    /\ nextTxId = 7
    /\ transactions[6].type = INCOME
    /\ transactions[6].amount = 60000
    /\ last.analysis = Some(NoAnalysis)
    /\ Len(analyze_transaction(transactions,
                               [transactions[6] EXCEPT !.type = EXPENSE], now).reasons) = 7

(* The reason a heuristic gives, by the query it rests on *)
KindOf(query) ==
    IF query = "velocity" THEN "HighVelocity"
    ELSE IF query = "average" THEN "AboveAverageSpend"
    ELSE "DuplicateBurst"

(* C12: when a historical query of analyze_transaction (velocity count,
   30-day average, duplicate count) fails with a store error, its heuristic
   counts as not triggered and analyze_transaction still returns the result
   of the remaining heuristics. *)
C12_FailedQuerySkipped ==
    [][\A id \in DOMAIN transactions, f \in Faults : analyze_faults(id, f) =>
        LET full == analyze_transaction(transactions, transactions[id], now)
            Kept(r) == \A q \in f : r.kind # KindOf(q)
        IN /\ last'.success
           /\ ~IsNone(last'.analysis)
           /\ Get(last'.analysis).reasons = SelectSeq(full.reasons, Kept)
      ]_vars

(* C13: a failing analysis does not block the creation of the transaction:
   when analyze_transaction fails inside add_transaction the new row is
   stored all the same, and the handler ends with an answer to the user. *)
C13_FailedAnalysisKeepsRow ==
    [][\A i \in FaultInputs, f \in Faults :
        add_transaction_faults(i[1], i[2], i[3], f) =>
            /\ DOMAIN transactions' = DOMAIN transactions \cup {nextTxId}
            /\ nextTxId \notin DOMAIN transactions
            /\ \A k \in DOMAIN transactions : transactions'[k] = transactions[k]
            /\ transactions'[nextTxId].user_id = i[1]
            /\ transactions'[nextTxId].amount = (IF i[2] < 0 THEN -i[2] ELSE i[2])
            /\ transactions'[nextTxId].description = Some(i[3])
            /\ transactions'[nextTxId].status = CONFIRMED
            /\ (i[2] < 0 /\ f # {}) =>
                  /\ last' = Result(FALSE, ErrAddFailed)
                  /\ transactions'[nextTxId].fraud_score = 0
                  /\ ~transactions'[nextTxId].is_suspicious
                  /\ alerts' = alerts
      ]_vars

(* The analysis of an expense of 60000 "bet" failed on a store error; the
   row is stored, unscored, and the handler answered with its error text. *)
C13_RowStoredAfterFailure ==
    /\ last = Result(FALSE, ErrAddFailed)
    /\ nadds = 1
    /\ transactions[nextTxId - 1].amount = 60000
    /\ transactions[nextTxId - 1].type = EXPENSE
    /\ transactions[nextTxId - 1].status = CONFIRMED
    /\ transactions[nextTxId - 1].fraud_score = 0
    /\ alerts = <<>>

(* C14: analyze_transaction has no side effect: it inserts, updates and
   deletes no transaction and no alert and changes no field of the
   transaction it is given; the store after the call equals the store
   before it. *)
C14_AnalysisReadsOnly ==
    [][\A id \in DOMAIN transactions : analyze(id) =>
        /\ transactions' = transactions
        /\ alerts' = alerts
        /\ users' = users
      ]_vars

(* analyze_transaction was called on an imported row and found it
   suspect to some degree; no row carries a score. *)
C14_AnalysedRowUntouched ==
    /\ nadds = 0
    /\ ~IsNone(last.analysis)
    /\ Get(last.analysis).fraud_score > 0
    /\ \A i \in DOMAIN transactions :
          transactions[i].fraud_score = 0 /\ IsNone(transactions[i].fraud_reasons)

(* C15: scoring is deterministic: two calls of analyze_transaction on the
   same transaction against the same store return the same fraud_score,
   is_suspicious and reasons; the wall clock enters only through the
   transaction's own timestamp. *)
C15_Deterministic ==
    [][transactions' = transactions =>
        \A id \in DOMAIN transactions :
            analyze_transaction(transactions', transactions'[id], now')
                = analyze_transaction(transactions, transactions[id], now)
      ]_vars

(* C16: SUSPICIOUS is not final: on a SUSPICIOUS transaction both
   confirm_transaction and reject_transaction succeed, whatever its status
   was before mark_as_suspicious; REJECTED -> SUSPICIOUS -> CONFIRMED and
   CONFIRMED -> SUSPICIOUS -> REJECTED both happen. *)
C16_SuspiciousNotFinal ==
    [][\A id \in TxIds, u \in Users :
        (Owns(u, id) /\ transactions[id].status = SUSPICIOUS) =>
            /\ confirm_transaction(id, u) =>
                 (last' = Result(TRUE, NoError) /\ transactions'[id].status = CONFIRMED)
            /\ \A r \in Reasons : reject_transaction(id, u, r) =>
                 (last' = Result(TRUE, NoError) /\ transactions'[id].status = REJECTED)
      ]_vars

(* A transaction entered as CONFIRMED carries a rejection note and is
   CONFIRMED again: it went CONFIRMED -> SUSPICIOUS -> REJECTED and then
   REJECTED -> SUSPICIOUS -> CONFIRMED, since neither guard lets a CONFIRMED
   row be rejected or a REJECTED row be confirmed directly. *)
C16_ThroughSuspiciousBothWays ==
    /\ last = Result(TRUE, NoError)
    /\ \E i \in DOMAIN transactions :
          /\ transactions[i].user_id = 1
          /\ transactions[i].amount = 60000
          /\ transactions[i].description =
                Some(txt_bet \o RejectPrefix \o txt_dup \o RejectSuffix)
          /\ transactions[i].status = CONFIRMED
          /\ transactions[i].fraud_score = 80

(* C17: after any creations and transitions,
   get_transaction_status_summary(user_id) gives for pending, confirmed,
   rejected and suspicious the number of the user's transactions now in that
   status; total is their sum and the number of the user's transactions. *)
C17_SummaryCounts ==
    \A u \in Users :
        LET summary == get_transaction_status_summary(transactions, u)
            Of(st) == Cardinality({i \in DOMAIN transactions :
                          transactions[i].user_id = u /\ transactions[i].status = st})
        IN /\ summary.pending = Of(PENDING)
           /\ summary.confirmed = Of(CONFIRMED)
           /\ summary.rejected = Of(REJECTED)
           /\ summary.suspicious = Of(SUSPICIOUS)
           /\ summary.total = summary.pending + summary.confirmed
                                + summary.rejected + summary.suspicious
           /\ summary.total = Cardinality({i \in DOMAIN transactions :
                                              transactions[i].user_id = u})

(* User 1 has one CONFIRMED and one SUSPICIOUS transaction, user 2 one
   REJECTED: the summaries are 0/1/0/1 of 2 and 0/0/1/0 of 1. *)
C17_MixedStatuses ==
    /\ get_transaction_status_summary(transactions, 1) =
          [pending |-> 0, confirmed |-> 1, rejected |-> 0, suspicious |-> 1, total |-> 2]
    /\ get_transaction_status_summary(transactions, 2) =
          [pending |-> 0, confirmed |-> 0, rejected |-> 1, suspicious |-> 0, total |-> 1]

(* C18: get_user_alerts(user_id, unread_only) returns exactly the alerts
   of user_id, only the unread ones when unread_only is true, the newest
   first; it never returns an alert of another user. *)
C18_AlertsOfUser ==
    \A u \in Users, unread_only \in BOOLEAN :
        /\ get_user_alerts(alerts, u, unread_only) # {}
        /\ \A list \in get_user_alerts(alerts, u, unread_only) :
              /\ {list[i] : i \in DOMAIN list} =
                    {k \in DOMAIN alerts :
                        /\ alerts[k].user_id = u
                        /\ unread_only => alerts[k].is_read = FALSE}
              /\ \A i \in DOMAIN list, j \in DOMAIN list :
                    /\ i # j => list[i] # list[j]
                    /\ i < j => alerts[list[i]].created_at >= alerts[list[j]].created_at
              /\ \A i \in DOMAIN list : alerts[list[i]].user_id = u

(* User 2 has a read alert of 03:00 and an unread one of 04:00, user 1
   has none: the full list is the later alert and then the earlier, the
   unread list the later alone, and user 1 gets the empty list. *)
C18_NewestFirst ==
    /\ DOMAIN alerts = {1, 2}
    /\ alerts[1].user_id = 2 /\ alerts[1].created_at = 3 /\ alerts[1].is_read
    /\ alerts[2].user_id = 2 /\ alerts[2].created_at = 4 /\ ~alerts[2].is_read
    /\ get_user_alerts(alerts, 2, FALSE) = {<<2, 1>>}
    /\ get_user_alerts(alerts, 2, TRUE) = {<<2>>}
    /\ get_user_alerts(alerts, 1, FALSE) = {<<>>}

(* C19: no alert is resolved by the system: through add_transaction,
   analyze_transaction, create_fraud_alert, get_user_alerts,
   mark_alert_as_read and the transitions, is_resolved stays false and
   resolved_at empty on every alert, and once an alert is created the only
   field of it that changes is is_read, changed by mark_alert_as_read
   alone. *)
C19_NoAutoResolve ==
    [][/\ \A k \in DOMAIN alerts :
            /\ k \in DOMAIN alerts'
            /\ alerts'[k] = [alerts[k] EXCEPT !.is_read = alerts'[k].is_read]
            /\ alerts'[k].is_read # alerts[k].is_read => mark_alert_as_read(k)
       /\ \A k \in DOMAIN alerts' :
            ~alerts'[k].is_resolved /\ IsNone(alerts'[k].resolved_at)
      ]_vars

(* An alert made for transaction 1 was read and the transaction then
   marked and rejected; a second alert, made by add_transaction, is unread;
   neither is resolved. *)
C19_ReadNotResolved ==
    /\ transactions[1].status = REJECTED
    /\ transactions[1].fraud_score = 80
    /\ nadds = 1
    /\ \E j \in DOMAIN alerts, k \in DOMAIN alerts :
          /\ alerts[j].transaction_id = Some(1)
          /\ alerts[j].is_read /\ ~alerts[j].is_resolved
          /\ alerts[k].transaction_id = Some(nextTxId - 1)
          /\ ~alerts[k].is_read /\ ~alerts[k].is_resolved

(* C20: score and severity never drift apart: the severity of every alert
   is the mapping (score > 0.7 HIGH, score > 0.5 MEDIUM, else LOW) of the
   current fraud_score of the transaction it refers to, also after
   mark_as_suspicious has set that score to 0.8. *)
C20_NoSeverityDrift ==
    \A k \in DOMAIN alerts :
        LET id == Get(alerts[k].transaction_id)
            score == transactions[id].fraud_score
        IN id \in DOMAIN transactions =>
              alerts[k].severity = (IF score > 70 THEN "HIGH"
                                    ELSE IF score > 50 THEN "MEDIUM"
                                    ELSE "LOW")

(* C21: the rows a CSV import creates enter the lifecycle in status PENDING,
   awaiting a later confirm or reject, and the row add_transaction creates
   is CONFIRMED at once. *)
C21_ImportedArePending ==
    [][/\ \A u \in Users, b \in ImportBatches :
            import_csv(u, b) =>
                \A k \in DOMAIN transactions' \ DOMAIN transactions :
                    transactions'[k].status = PENDING
       /\ \A i \in ImportAdds :
            add_transaction(i[1], i[2], i[3]) => transactions'[nextTxId].status = CONFIRMED
      ]_vars

(* The rows of one user *)
OwnRows(T, u) == [i \in {j \in DOMAIN T : T[j].user_id = u} |-> T[i]]

(* The table without the rows in `gone` *)
Without(T, gone) == [i \in DOMAIN T \ gone |-> T[i]]

(* What the scorer measures for row t on table T: the velocity count, the
   sum and number of the averaged expenses, the duplicate count, the result *)
Measures(T, t, clock) ==
    <<Cardinality(RecentIds(T, t, clock)),
      SumAmount(T, ExpenseIds(T, t, clock)), Cardinality(ExpenseIds(T, t, clock)),
      Cardinality(SimilarIds(T, t, clock)),
      analyze_transaction(T, t, clock)>>

(* C22: scoring is isolated per user: for every row of a user the scorer
   measures and returns the same on the table and on the table without any
   set of other users' rows, and a step that creates, changes or deletes
   rows of other users only leaves the velocity count, the average, the
   duplicate count and the result for that user's rows unchanged. *)
C22_PerUserIsolation ==
    /\ [](\A u \in Users :
             LET own == OwnRows(transactions, u)
             IN \A i \in DOMAIN own, gone \in SUBSET (DOMAIN transactions \ DOMAIN own) :
                    Measures(Without(transactions, gone), own[i], now)
                        = Measures(transactions, own[i], now))
    /\ [][\A u \in Users :
             LET own == OwnRows(transactions, u)
             IN (OwnRows(transactions', u) = own /\ now' = now) =>
                   \A i \in DOMAIN own :
                       Measures(transactions', own[i], now')
                           = Measures(transactions, own[i], now)
         ]_vars

(* User 1 has five rows of the last hour, one of them an expense whose
   velocity count is 5 and that is not flagged for velocity, while the table
   holds more than five rows of that hour because user 2 entered some and
   then had one deleted. *)
C22_ForeignRowsNotCounted ==
    /\ last = Result(TRUE, NoError)
    /\ \E i \in DOMAIN transactions :
          /\ transactions[i].user_id = 1
          /\ transactions[i].type = EXPENSE
          /\ Cardinality(RecentIds(transactions, transactions[i], now)) = VelocityLimit
          /\ Cardinality({j \in DOMAIN transactions :
                            transactions[j].created_at >= now - HourWindow}) > VelocityLimit
          /\ \A k \in 1..Len(analyze_transaction(transactions, transactions[i], now).reasons) :
                analyze_transaction(transactions, transactions[i], now).reasons[k].kind
                    # "HighVelocity"
    /\ nadds = OtherAdds
    /\ \E j \in 1..(nextTxId - 1) : j \notin DOMAIN transactions

(* The heuristics in the order of the table, and their weights *)
RefOrder == <<"LargeAmount", "VeryLargeAmount", "UnusualHour", "HighVelocity",
              "KeywordMatch", "AboveAverageSpend", "DuplicateBurst">>
RefWeight == <<30, 20, 20, 30, 40, 30, 20>>

(* Whether heuristic k of the table is triggered by row t on table T *)
RefHolds(k, T, t, clock) ==
    LET mine == {i \in DOMAIN T : T[i].user_id = t.user_id}
        spent == {i \in mine : T[i].type = "expense" /\ T[i].created_at >= clock - 720}
    IN CASE k = 1 -> t.amount > 10000
         [] k = 2 -> t.amount > 50000
         [] k = 3 -> (t.transaction_date % 24) < 6 \/ (t.transaction_date % 24) > 23
         [] k = 4 -> Cardinality({i \in mine : T[i].created_at >= clock - 1}) > 5
         [] k = 5 -> \E n \in 1..Len(suspicious_keywords) :
                        Contains(Lower(Text(t.description)), suspicious_keywords[n])
         [] k = 6 -> /\ spent # {}
                     /\ SumAmount(T, spent) > 0
                     /\ t.amount * Cardinality(spent) > 3 * SumAmount(T, spent)
         [] k = 7 -> Cardinality({i \in mine : /\ T[i].amount = t.amount
                                               /\ T[i].description = t.description
                                               /\ T[i].created_at >= clock - 24}) > 2

(* The sum of the weights of the heuristics of `order` that are triggered,
   added in that order *)
RECURSIVE RefSum(_, _, _, _)
RefSum(order, T, t, clock) ==
    IF Len(order) = 0 THEN 0
    ELSE RefSum(SubSeq(order, 1, Len(order) - 1), T, t, clock)
           + (IF RefHolds(order[Len(order)], T, t, clock)
              THEN RefWeight[order[Len(order)]] ELSE 0)

(* C23: for every EXPENSE row, analyze_transaction gives the reference
   scorer's result: its reasons are the triggered heuristics, each once, in
   the order LargeAmount, VeryLargeAmount, UnusualHour, HighVelocity,
   KeywordMatch (naming the first term of the denylist the lower-cased
   description contains), AboveAverageSpend, DuplicateBurst, and its score is
   min(1.0, the sum of the weights of the triggered ones), whichever way
   round the weights are added. *)
C23_EqualsReferenceScorer ==
    \A i \in DOMAIN transactions :
        transactions[i].type = EXPENSE =>
            LET t == transactions[i]
                a == analyze_transaction(transactions, t, now)
                Hit(k) == RefHolds(k, transactions, t, now)
                hits == SelectSeq(<<1, 2, 3, 4, 5, 6, 7>>, Hit)
            IN /\ Len(a.reasons) = Len(hits)
               /\ \A j \in 1..Len(hits) :
                     /\ a.reasons[j].kind = RefOrder[hits[j]]
                     /\ hits[j] = 5 =>
                           \E n \in 1..Len(suspicious_keywords) :
                               /\ a.reasons[j].keyword = suspicious_keywords[n]
                               /\ Contains(Lower(Text(t.description)), suspicious_keywords[n])
                               /\ \A m \in 1..(n - 1) :
                                     ~Contains(Lower(Text(t.description)),
                                               suspicious_keywords[m])
               /\ a.fraud_score = Min(100, RefSum(<<1, 2, 3, 4, 5, 6, 7>>, transactions, t, now))
               /\ a.fraud_score = Min(100, RefSum(<<7, 6, 5, 4, 3, 2, 1>>, transactions, t, now))
               /\ a.fraud_score = Min(100, RefSum(<<5, 1, 7, 3, 2, 6, 4>>, transactions, t, now))

(* An expense of 100 "Casino bet" entered at 03:00 was scored 0.6 for
   UnusualHour and one KeywordMatch naming "casino", although "bet" matches
   as well, while another stored expense triggers no heuristic. *)
C23_TwoKeywordsCountedOnce ==
    /\ nadds = 1
    /\ transactions[nextTxId - 1].description = Some(txt_Casino_bet)
    /\ last.analysis = Some(analyze_transaction(transactions, transactions[nextTxId - 1], now))
    /\ Get(last.analysis).reasons
          = <<Reason("UnusualHour"), KeywordReason(<<99, 97, 115, 105, 110, 111>>)>>
    /\ Get(last.analysis).fraud_score = 60
    /\ \E i \in DOMAIN transactions :
          /\ transactions[i].type = EXPENSE
          /\ analyze_transaction(transactions, transactions[i], now) = NoAnalysis

(* C24: when the analysis made by add_transaction flags the new transaction
   as suspicious, its status becomes SUSPICIOUS in that same call, without a
   call of mark_as_suspicious. *)
C24_VerdictDrivesStatus ==
    [][\A i \in AddInputs :
         (add_transaction(i[1], i[2], i[3]) /\ Get(last'.analysis).is_suspicious) =>
             transactions'[nextTxId].status = SUSPICIOUS
      ]_vars

(* The orders in which the store can serve two requests, each committing
   its row and then running its velocity query: position k is the client
   served k-th, its first turn the commit and its second the query *)
Schedules ==
    {s \in [1..(2 * Cardinality(Clients)) -> Clients] :
        \A c \in Clients : Cardinality({k \in DOMAIN s : s[k] = c}) = 2}

(* The table, the ids given and the rows counted after the turns k.. of
   schedule s, client c entering input[c] *)
RECURSIVE Replay(_, _, _, _)
Replay(s, k, input, st) ==
    IF k > Len(s) THEN st
    ELSE LET c == s[k]
             i == input[c]
         IN IF st.id[c] = 0
            THEN Replay(s, k + 1, input,
                        [st EXCEPT !.T = Store(st.T, st.next,
                                               EnteredRow(i[1], i[2], i[3], now)),
                                   !.next = st.next + 1,
                                   !.id[c] = st.next])
            ELSE Replay(s, k + 1, input,
                        [st EXCEPT !.counted[c] = RecentIds(st.T, st.T[st.id[c]], now)])

(* C25: two add_transaction requests of one user that start together can be
   served in an order in which both velocity queries count the same rows,
   those stored before either request, so that neither count includes
   either of the two new transactions. *)
C25_BothReadStaleCount ==
    (\A c \in Clients : sess[c].pc = "idle") =>
        \E s \in Schedules, input \in [Clients -> RaceInputs] :
            LET end == Replay(s, 1, input,
                              [T |-> transactions, next |-> nextTxId,
                               id |-> [c \in Clients |-> 0],
                               counted |-> [c \in Clients |-> {}]])
            IN \A c \in Clients :
                  /\ end.counted[c] = RecentIds(transactions, [user_id |-> 1], now)
                  /\ \A d \in Clients : end.id[d] \notin end.counted[c]

(* In every order each request's velocity query counts the request's own
   row, committed before the analysis starts. *)
RaceCountsOwnRow ==
    \A c \in Clients :
        sess[c].pc \in {"analysed", "done"} => sess[c].tid \in Get(sess[c].seen).counted

(* C26: a user with no other transaction in the trailing hour enters one
   after another, within the hour, unremarkable expenses with pairwise
   different descriptions: each of the first five is stored with score 0 and
   no reason, the sixth is the first flagged for HighVelocity and is stored
   with score 0.3 and that one reason, not suspicious, and no alert is
   created. *)
C26_SixthTriggersVelocity ==
    /\ \A i \in DOMAIN transactions :
          /\ i <= 5 => /\ transactions[i].fraud_score = 0
                       /\ IsNone(transactions[i].fraud_reasons)
                       /\ ~transactions[i].is_suspicious
          /\ i = 6 => /\ transactions[i].fraud_score = 30
                      /\ transactions[i].fraud_reasons = JoinReasons(<<Reason("HighVelocity")>>)
                      /\ ~transactions[i].is_suspicious
    /\ (nadds \in 1..5 /\ ~IsNone(last.analysis)) => Get(last.analysis) = NoAnalysis
    /\ nadds <= 6 => alerts = <<>>

(* Six expenses were entered; the sixth was answered with HighVelocity
   alone, score 0.3, and there is no alert. *)
C26_SixEntered ==
    /\ nadds = 6
    /\ DOMAIN transactions = 1..6
    /\ \A i \in 1..6, j \in 1..6 :
          i # j => transactions[i].description # transactions[j].description
    /\ last.analysis = Some([is_suspicious |-> FALSE, fraud_score |-> 30,
                             reasons |-> <<Reason("HighVelocity")>>])
    /\ transactions[6].fraud_score = 30
    /\ alerts = <<>>

(* C27: confirm_transaction and reject_transaction never change fraud_score,
   is_suspicious or fraud_reasons: a confirm changes at most status and
   updated_at of the named row, a reject at most status, updated_at and
   description, and no other row; so a transaction confirmed after
   mark_as_suspicious is CONFIRMED and still carries is_suspicious true and
   fraud_score 0.8. *)
C27_VerdictSurvivesConfirmAndReject ==
    [][\A id \in TxIds, u \in Users :
         /\ confirm_transaction(id, u) =>
              /\ DOMAIN transactions' = DOMAIN transactions
              /\ \A k \in DOMAIN transactions :
                    /\ transactions'[k] = [transactions[k] EXCEPT
                                              !.status = transactions'[k].status,
                                              !.updated_at = transactions'[k].updated_at]
                    /\ k # id => transactions'[k] = transactions[k]
              /\ (Owns(u, id) /\ transactions[id].status = SUSPICIOUS) =>
                    /\ transactions'[id].status = CONFIRMED
                    /\ transactions'[id].is_suspicious
                    /\ transactions'[id].fraud_score = 80
         /\ \A r \in Reasons :
              reject_transaction(id, u, r) =>
                 /\ DOMAIN transactions' = DOMAIN transactions
                 /\ \A k \in DOMAIN transactions :
                       /\ transactions'[k] = [transactions[k] EXCEPT
                                                 !.status = transactions'[k].status,
                                                 !.updated_at = transactions'[k].updated_at,
                                                 !.description = transactions'[k].description]
                       /\ k # id => transactions'[k] = transactions[k]
      ]_vars

(* A PENDING transaction was marked suspicious and then confirmed: it is
   CONFIRMED, flagged, with score 0.8 and the reason of the mark. *)
C27_ConfirmedStillFlagged ==
    /\ last = Result(TRUE, NoError)
    /\ \E i \in DOMAIN transactions :
          /\ transactions[i].user_id = 2
          /\ transactions[i].status = CONFIRMED
          /\ transactions[i].is_suspicious
          /\ transactions[i].fraud_score = 80
          /\ transactions[i].fraud_reasons = Some(UserReason(txt_dup))

(* C28: every alert created by add_transaction has severity MEDIUM or HIGH,
   never LOW, and while the transaction it refers to exists that
   transaction is stored with is_suspicious true and a fraud_score above
   0.5, whatever confirm, reject, mark_as_suspicious and mark_alert_as_read
   calls follow. *)
C28_AlertedStaysFlagged ==
    \A k \in DOMAIN alerts :
        /\ alerts[k].severity \in {"MEDIUM", "HIGH"}
        /\ LET id == Get(alerts[k].transaction_id)
           IN id \in DOMAIN transactions =>
                 /\ transactions[id].is_suspicious
                 /\ transactions[id].fraud_score > 50

(* An entered transaction got a MEDIUM alert; the alert was read and the
   transaction marked and then rejected; it is still flagged. *)
C28_AlertedThenRejected ==
    \E k \in DOMAIN alerts :
        /\ alerts[k].severity = "MEDIUM"
        /\ alerts[k].is_read
        /\ transactions[Get(alerts[k].transaction_id)].status = REJECTED
        /\ transactions[Get(alerts[k].transaction_id)].is_suspicious
        /\ transactions[Get(alerts[k].transaction_id)].fraud_score = 80

(* Whether an analysis names this heuristic *)
Names(analysis, kind) == \E j \in 1..Len(analysis.reasons) : analysis.reasons[j].kind = kind

(* C29: add_transaction commits the candidate before it is analysed, so the
   30-day mean includes the candidate's amount: an expense of amount a
   entered by a user with n other expenses of the last 30 days, of sum n x m,
   triggers AboveAverageSpend exactly when a x (n - 2) > 3 x n x m, and so
   never when n is less than three, whatever the amount. *)
C29_MeanIncludesCandidate ==
    [][\A i \in MeanInputs :
         add_transaction(i[1], i[2], i[3]) =>
            LET a == -i[2]
                others == ExpenseIds(transactions, [user_id |-> i[1]], now)
                n == Cardinality(others)
                sum == SumAmount(transactions, others)
                triggered == Names(Get(last'.analysis), "AboveAverageSpend")
            IN /\ triggered <=> (a * (n - 2) > 3 * sum)
               /\ n < 3 => ~triggered
               /\ nextTxId \in ExpenseIds(transactions', transactions'[nextTxId], now)
      ]_vars

(* An expense of 60000 entered by a user with two other expenses of 100
   each was not flagged for exceeding the average. *)
C29_LargeAmongTwo ==
    /\ nadds = 1
    /\ transactions[nextTxId - 1].amount = 60000
    /\ last.analysis = Some(analyze_transaction(transactions, transactions[nextTxId - 1], now))
    /\ Cardinality(ExpenseIds(transactions, transactions[nextTxId - 1], now)) = 3
    /\ ~Names(Get(last.analysis), "AboveAverageSpend")
    /\ Names(Get(last.analysis), "VeryLargeAmount")

(* C30: in add_transaction the duplicate count includes the candidate: a
   user who enters expenses of one amount and one description one after
   another within 24 hours, with no such row before, triggers DuplicateBurst
   neither with the first nor with the second of them, and with the third
   for the first time. *)
C30_ThirdEqualTriggers ==
    [][\A i \in DupInputs :
         add_transaction(i[1], i[2], i[3]) =>
            LET before == Cardinality({k \in DOMAIN transactions :
                                         /\ transactions[k].user_id = i[1]
                                         /\ transactions[k].amount = -i[2]
                                         /\ transactions[k].description = Some(i[3])
                                         /\ transactions[k].created_at >= now - 24})
                triggered == Names(Get(last'.analysis), "DuplicateBurst")
            IN /\ before \in {0, 1} => ~triggered
               /\ before = 2 => triggered
               /\ triggered <=> before + 1 > 2
      ]_vars

(* Three expenses of 100 "food" were entered by one user and nothing else:
   the first two are stored without DuplicateBurst, the third with it. *)
C30_ThreeEqualEntered ==
    /\ nadds = 3
    /\ \A k \in 1..3 : /\ transactions[k].user_id = 1
                       /\ transactions[k].amount = 100
                       /\ transactions[k].description = Some(txt_food)
    /\ transactions[1].fraud_reasons = JoinReasons(<<Reason("UnusualHour")>>)
    /\ transactions[2].fraud_reasons = JoinReasons(<<Reason("UnusualHour")>>)
    /\ transactions[3].fraud_reasons
          = JoinReasons(<<Reason("UnusualHour"), Reason("DuplicateBurst")>>)
    /\ Names(Get(last.analysis), "DuplicateBurst")
    /\ transactions[3].created_at > transactions[1].created_at

=============================================================================
